---- MODULE Spec2Model ----
(***************************************************************************)
(* Model of the Discord "tank talk" counter bot                            *)
(* (src/discord_tank_counter_bot_python.py).                               *)
(*                                                                         *)
(* State: the in-memory registry State._by_guild, the state.json file,     *)
(* the platform's messages and channel names, and the command handlers in  *)
(* flight.  A handler is a coroutine: the code between two awaits of a     *)
(* platform call is one atomic step, and the platform's answer to the call *)
(* is the input of the next step.  Spec runs one handler at a time;        *)
(* SpecConc lets handlers of one guild overlap at their awaits.            *)
(***************************************************************************)
EXTENDS Integers, Sequences, FiniteSets, TLC

\* ---------------------------------------------------------------- bounds
\* Commands issued in one run.
MaxCmds == 3
\* Message ids the platform hands out (id 1 is a member's message).
MaxMsgs == 3
\* Handler slots; Spec runs one handler at a time in slot 1.
NumTasks == 2

\* ------------------------------------------------------------- universe
Guilds == {1, 2}
Channels == {11, 21}
ChanGuild(c) == c \div 10
MsgIds == 1..MaxMsgs
Tasks == 1..NumTasks

\* Python's None; ids are positive snowflakes, so "x and y" on ids is
\* "neither is None".
None == 0
Truthy(x) == x # None

\* client.user.id, and the id of some other member.
BotUser == 100
OtherUser == 200

\* ------------------------------------------------------------ rendering
\* A text is a sequence of characters; in a template the replacement
\* fields of str.format are single tokens.
DaysField == "{days}"
OtherField == "{who}"
Fields == {DaysField, OtherField}

DEFAULT_TEMPLATE ==
  <<DaysField, " ", "d", "a", "y", "s", " ", "s", "i", "n", "c", "e", " ",
    "S", "e", "a", "n", " ", "a", "n", "d", " ",
    "P", "a", "t", "r", "i", "c", "k", " ",
    "t", "a", "l", "k", "e", "d", " ", "a", "b", "o", "u", "t", " ",
    "t", "a", "n", "k", "s">>

Digit(d) == <<"0", "1", "2", "3", "4", "5", "6", "7", "8", "9">>[d + 1]

RECURSIVE NatStr(_)
NatStr(n) == IF n < 10 THEN <<Digit(n)>>
             ELSE NatStr(n \div 10) \o <<Digit(n % 10)>>

\* str(n) of a Python int.
Str(n) == IF n < 0 THEN <<"-">> \o NatStr(-n) ELSE NatStr(n)

\* str.format(days=...) raises KeyError on a field other than days.
FormatOK(tpl) == \A i \in 1..Len(tpl) : tpl[i] \in Fields => tpl[i] = DaysField

RECURSIVE Format(_, _)
Format(tpl, days) ==
  IF tpl = <<>> THEN <<>>
  ELSE (IF Head(tpl) = DaysField THEN Str(days) ELSE <<Head(tpl)>>)
       \o Format(Tail(tpl), days)

\* _render_text(gs)
RenderOK(gs) == FormatOK(gs.template)
RenderText(gs) == Format(gs.template, gs.days)

\* str.lower() of one character.
LowerOf(ch) ==
  CASE ch = "A" -> "a" [] ch = "B" -> "b" [] ch = "C" -> "c" [] ch = "D" -> "d"
    [] ch = "E" -> "e" [] ch = "F" -> "f" [] ch = "G" -> "g" [] ch = "H" -> "h"
    [] ch = "I" -> "i" [] ch = "J" -> "j" [] ch = "K" -> "k" [] ch = "L" -> "l"
    [] ch = "M" -> "m" [] ch = "N" -> "n" [] ch = "O" -> "o" [] ch = "P" -> "p"
    [] ch = "Q" -> "q" [] ch = "R" -> "r" [] ch = "S" -> "s" [] ch = "T" -> "t"
    [] ch = "U" -> "u" [] ch = "V" -> "v" [] ch = "W" -> "w" [] ch = "X" -> "x"
    [] ch = "Y" -> "y" [] ch = "Z" -> "z"
    [] OTHER -> ch

\* The characters the pattern [^a-z0-9-] leaves alone.
ChannelNameChars ==
  {"a", "b", "c", "d", "e", "f", "g", "h", "i", "j", "k", "l", "m", "n",
   "o", "p", "q", "r", "s", "t", "u", "v", "w", "x", "y", "z",
   "0", "1", "2", "3", "4", "5", "6", "7", "8", "9", "-"}

NameLimit == 95

\* re.sub(r"[^a-z0-9-]", "-", ch.lower()) of one character.
SafeChar(ch) == IF LowerOf(ch) \in ChannelNameChars THEN LowerOf(ch) ELSE "-"

RECURSIVE SafeChars(_)
SafeChars(text) ==
  IF text = <<>> THEN <<>>
  ELSE <<SafeChar(Head(text))>> \o SafeChars(Tail(text))

\* Mutant: the name is not cut.
SafeName_Uncut(text) == SafeChars(text)

\* re.sub(r"[^a-z0-9-]", "-", text.lower())[:95]
SafeName(text) ==
  LET safe == SafeChars(text)
  IN IF Len(safe) <= NameLimit THEN safe ELSE SubSeq(safe, 1, NameLimit)

\* -------------------------------------------------------------- records
\* GuildState(guild_id) with data = None.
DefaultGuildState(g) ==
  [guild_id |-> g, days |-> 0, message_id |-> None, channel_id |-> None,
   mode |-> "message", template |-> DEFAULT_TEMPLATE,
   channel_name_channel_id |-> None]

\* GuildState.to_dict
ToDict(gs) ==
  [days |-> gs.days, message_id |-> gs.message_id,
   channel_id |-> gs.channel_id, mode |-> gs.mode,
   template |-> gs.template,
   channel_name_channel_id |-> gs.channel_name_channel_id]

\* Mutant: the rename channel is not read back.
FromDict_NoRenameChannel(g, data) ==
  [guild_id |-> g, days |-> data.days, message_id |-> data.message_id,
   channel_id |-> data.channel_id, mode |-> data.mode,
   template |-> data.template, channel_name_channel_id |-> None]

\* GuildState(guild_id, data) for a dict that State.save wrote.
FromDict(g, data) ==
  [guild_id |-> g, days |-> data.days, message_id |-> data.message_id,
   channel_id |-> data.channel_id, mode |-> data.mode,
   template |-> data.template,
   channel_name_channel_id |-> data.channel_name_channel_id]

\* str(gid) and int(gid_str)
GidStr(g) == ToString(g)
GidInt(s) == CHOOSE g \in Guilds : GidStr(g) = s

NoFile == [exists |-> FALSE, raw |-> [k \in {} |-> None]]

\* State.save: the whole registry, keyed by str(gid).
SavedFile(byGuild) ==
  [exists |-> TRUE,
   raw |-> [k \in {GidStr(g) : g \in DOMAIN byGuild} |->
              ToDict(byGuild[GidInt(k)])]]

\* State.load
LoadFile(f) ==
  IF f.exists
  THEN [g \in {GidInt(k) : k \in DOMAIN f.raw} |-> FromDict(g, f.raw[GidStr(g)])]
  ELSE [g \in {} |-> None]

\* State.for_guild: the registry after the call; the record is by_guild[g].
ForGuild(byGuild, g) ==
  IF g \in DOMAIN byGuild THEN byGuild
  ELSE [x \in DOMAIN byGuild \cup {g} |->
          IF x = g THEN DefaultGuildState(g) ELSE byGuild[x]]

\* ---------------------------------------------------------------- state
VARIABLES
  by_guild,   \* State._by_guild: guild id -> GuildState
  file,       \* state.json
  msgs,       \* platform: message id -> message
  chanName,   \* platform: channel id -> channel name
  tasks,      \* the handlers: slot -> coroutine state
  ncmds       \* commands issued so far

vars == <<by_guild, file, msgs, chanName, tasks, ncmds>>

NoMsg == [state |-> "none", author |-> None, channel |-> None, content |-> <<>>]
NoResp == [sent |-> FALSE, ephemeral |-> FALSE, content |-> <<>>]

IdleTask ==
  [pc |-> "idle", cmd |-> "none", guild |-> None,
   branch |-> "none",    \* the branch of _update_display being run
   chan |-> None,        \* the channel object the handler holds
   mid |-> None,         \* the message id passed to fetch_message
   text |-> <<>>,        \* the content passed to edit / send_message
   calls |-> <<>>,       \* platform calls made by _update_display
   exc |-> "none",       \* the exception that ended the handler
   resp |-> NoResp,      \* interaction.response
   arg |-> None,         \* the value the command was given
   saves |-> 0,          \* calls of state.save() made by the handler
   pre |-> DefaultGuildState(None)]  \* the record when the handler started

Init ==
  /\ file = NoFile
  /\ by_guild = LoadFile(NoFile)
  /\ msgs = [m \in MsgIds |->
               IF m = 1
               THEN [state |-> "alive", author |-> OtherUser, channel |-> 11,
                     content |-> <<"h", "i">>]
               ELSE NoMsg]
  /\ chanName = [c \in Channels |-> <<"c">>]
  /\ tasks = [t \in Tasks |-> IdleTask]
  /\ ncmds = 0


\* ------------------------------------------------------------ platform
\* guild.get_channel(id): the guild's channel cache.
GetChannel(g, c) == c \in Channels /\ ChanGuild(c) = g

\* Answers of discord.py's HTTP calls: "ok", or the exception raised.
\* NotFound and Forbidden subclass HTTPException; a handler tells them apart
\* only where it has an except clause for one of them, so each call is given
\* the answers the code distinguishes and one that it does not catch.
Outcomes == {"ok", "NotFound", "Forbidden", "HTTPException"}

\* What client.fetch_channel can answer.
FetchChannelOutcomes == {"ok", "NotFound"}

\* What channel.fetch_message(m) can answer for channel c: NotFound exactly
\* when the channel holds no such message, Forbidden at any time.
FetchMessageOutcomes(c, m) ==
  (IF m \in MsgIds /\ msgs[m].state = "alive" /\ msgs[m].channel = c
   THEN {"ok"} ELSE {"NotFound"})
  \cup {"Forbidden"}

\* What msg.edit can answer for message m.
MsgEditOutcomes(m) ==
  (IF msgs[m].state = "alive" THEN {"ok"} ELSE {"NotFound"})
  \cup {"Forbidden"}

\* What channel.edit(name=...) can answer.
ChannelEditOutcomes == {"ok", "Forbidden", "HTTPException"}

\* ------------------------------------------------------ handler helpers
\* The record of guild g as a handler finds it: the registered one, or the
\* default one that for_guild is about to create.
Snapshot(g) ==
  IF g \in DOMAIN by_guild THEN by_guild[g] ELSE DefaultGuildState(g)

Begin(cmd, g, arg) ==
  [IdleTask EXCEPT !.pc = "running", !.cmd = cmd, !.guild = g, !.arg = arg,
                   !.pre = Snapshot(g)]

\* An exception leaves the handler: nothing after the raise runs.
Raise(task, e) == [task EXCEPT !.pc = "done", !.exc = e]

\* await interaction.response.send_message(content, ephemeral=eph) as the
\* handler's last statement.
Respond(task, content, eph) ==
  [task EXCEPT !.pc = "done",
               !.resp = [sent |-> TRUE, ephemeral |-> eph, content |-> content]]

\* The success message of each handler that ends with _update_display.
SuccessText(cmd, gs) ==
  CASE cmd = "set" -> <<"Set to **">> \o Str(gs.days) \o <<"**.">>
    [] cmd = "inc" -> <<"Now **">> \o Str(gs.days) \o <<"**.">>
    [] cmd = "reset" -> <<"Reset to **0**.">>
    [] cmd = "bind" -> <<"Bound to that message.">>
    [] cmd = "template" -> <<"Template updated.">>
    [] cmd = "mode" -> <<"Mode set to **", gs.mode, "**.">>

\* _update_display returned: the handler sends its success message.
AfterUpdate(task, gs) == Respond(task, SuccessText(task.cmd, gs), TRUE)

Call(task, pc, name) ==
  [task EXCEPT !.pc = pc, !.calls = Append(@, name)]

\* line 95: channel.fetch_message(gs.message_id)
CallFetchMessage(task, gs) ==
  [Call(task, "fetch_message", "fetch_message") EXCEPT !.mid = gs.message_id]

\* Mutant: the edit appends the rendering to what the message shows.
CallMsgEdit_Append(task, gs) ==
  IF RenderOK(gs)
  THEN [Call(task, "msg_edit", "msg.edit")
          EXCEPT !.text = msgs[task.mid].content \o RenderText(gs)]
  ELSE Raise(task, "KeyError")

\* line 101: msg.edit(content=await _render_text(gs))
CallMsgEdit(task, gs) ==
  IF RenderOK(gs)
  THEN [Call(task, "msg_edit", "msg.edit") EXCEPT !.text = RenderText(gs)]
  ELSE Raise(task, "KeyError")

\* lines 106-109: channel.edit(name=safe)
CallChannelEdit(task, gs) ==
  IF RenderOK(gs)
  THEN [Call(task, "channel_edit", "channel.edit")
          EXCEPT !.text = SafeName(RenderText(gs))]
  ELSE Raise(task, "KeyError")

\* Mutant: the message branch is taken whenever a message is bound.
InMessageMode_WhenBound(gs) == Truthy(gs.message_id)

\* line 91: gs.mode == "message"
InMessageMode(gs) == gs.mode = "message"

\* Mutant: only channel_id is tested.
HasMessageTarget_ChannelOnly(gs) == Truthy(gs.channel_id)

\* line 92: gs.channel_id and gs.message_id
HasMessageTarget(gs) == Truthy(gs.channel_id) /\ Truthy(gs.message_id)

\* Mutant: the NotFound handler leaves the binding in place.
ClearBinding_Kept(gs) == gs

\* Mutant: the NotFound handler resets the whole record.
ClearBinding_Reset(gs) == DefaultGuildState(gs.guild_id)

\* lines 97-98: the binding is cleared by clearing message_id.
ClearBinding(gs) == [gs EXCEPT !.message_id = None]

\* Mutant: the binding is stored without switching the mode.
BoundTo_KeepMode(gs, c, m) == [gs EXCEPT !.channel_id = c, !.message_id = m]

\* lines 133-135 and 195-197: the record is bound to message m of channel c.
BoundTo(gs, c, m) ==
  [gs EXCEPT !.mode = "message", !.channel_id = c, !.message_id = m]

\* _update_display(guild, gs) up to its first await.
UpdateDisplay(task, gs) ==
  IF InMessageMode(gs)
  THEN IF HasMessageTarget(gs)
       THEN LET tk == [task EXCEPT !.branch = "message", !.chan = gs.channel_id]
            IN IF GetChannel(task.guild, gs.channel_id)
               THEN CallFetchMessage(tk, gs)
               ELSE Call(tk, "fetch_channel", "fetch_channel")
       ELSE AfterUpdate(task, gs)
  ELSE IF gs.mode = "channel_name"
  THEN IF Truthy(gs.channel_name_channel_id)
       THEN LET tk == [task EXCEPT !.branch = "channel_name",
                                   !.chan = gs.channel_name_channel_id]
            IN IF GetChannel(task.guild, gs.channel_name_channel_id)
               THEN CallChannelEdit(tk, gs)
               ELSE Call(tk, "fetch_channel", "fetch_channel")
       ELSE AfterUpdate(task, gs)
  ELSE AfterUpdate(task, gs)

\* The dispatcher hands a command to slot t.
CanStart(t) ==
  /\ tasks[t].pc \in {"idle", "done"}
  /\ ncmds < MaxCmds

Started(t, task) ==
  /\ tasks' = [tasks EXCEPT ![t] = task]
  /\ ncmds' = ncmds + 1

\* Mutant: state.save() runs before the record is changed.
SaveAndUpdate_SaveFirst(t, task, newByGuild) ==
  /\ by_guild' = newByGuild
  /\ file' = SavedFile(ForGuild(by_guild, task.guild))
  /\ tasks' = [tasks EXCEPT ![t] =
       UpdateDisplay([task EXCEPT !.saves = @ + 1], newByGuild[task.guild])]

\* A mutating handler's "change gs; state.save(); await _update_display".
SaveAndUpdate(t, task, newByGuild) ==
  /\ by_guild' = newByGuild
  /\ file' = SavedFile(newByGuild)
  /\ tasks' = [tasks EXCEPT ![t] =
       UpdateDisplay([task EXCEPT !.saves = @ + 1], newByGuild[task.guild])]

\* ------------------------------------------------------------- commands
\* Mutant: the range has no lower end.
RangeOK_NoLowerEnd(d) == d <= 10000

\* app_commands.Range[int, 0, 10000]
RangeOK(d) == 0 <= d /\ d <= 10000

SetInputs == {-1, 5000, 10000, 10001}

\* /tank set
SetDays(t, g, d) ==
  /\ CanStart(t)
  /\ ncmds' = ncmds + 1
  /\ IF RangeOK(d)
     THEN SaveAndUpdate(t, Begin("set", g, d),
                        [ForGuild(by_guild, g) EXCEPT ![g].days = d])
     ELSE /\ tasks' = [tasks EXCEPT ![t] = Raise(Begin("set", g, d), "TransformerError")]
          /\ UNCHANGED <<by_guild, file>>
  /\ UNCHANGED <<msgs, chanName>>

\* Mutant: inc stores 1 instead of adding 1.
IncValue_Overwrite(d) == 1

\* Mutant: inc stops at the upper end of the range of set.
IncValue_Clamped(d) == IF d < 10000 THEN d + 1 ELSE d

\* line 152: gs.days += 1
IncValue(d) == d + 1

\* /tank inc
Increment(t, g) ==
  /\ CanStart(t)
  /\ ncmds' = ncmds + 1
  /\ SaveAndUpdate(t, Begin("inc", g, None),
                   [ForGuild(by_guild, g) EXCEPT ![g].days = IncValue(@)])
  /\ UNCHANGED <<msgs, chanName>>

\* /tank reset
Reset(t, g) ==
  /\ CanStart(t)
  /\ ncmds' = ncmds + 1
  /\ SaveAndUpdate(t, Begin("reset", g, None),
                   [ForGuild(by_guild, g) EXCEPT ![g].days = 0])
  /\ UNCHANGED <<msgs, chanName>>

\* /tank show
Show(t, g) ==
  /\ CanStart(t)
  /\ by_guild' = ForGuild(by_guild, g)
  /\ LET gs == by_guild'[g]
         task == Begin("show", g, None)
     IN Started(t, IF RenderOK(gs) THEN Respond(task, RenderText(gs), FALSE)
                   ELSE Raise(task, "KeyError"))
  /\ UNCHANGED <<file, msgs, chanName>>

\* A template whose rendering is longer than a channel name may be.
LongTemplate == DEFAULT_TEMPLATE \o DEFAULT_TEMPLATE

TemplateInputs ==
  {<<DaysField, "-", DaysField>>, <<DaysField, " ", OtherField>>, <<"n", "o">>,
   LongTemplate}

\* Mutant: the placeholder check is missing.
HasDays_Unchecked(text) == TRUE

\* "{days}" in text
HasDays(text) == \E i \in 1..Len(text) : text[i] = DaysField

\* /tank template
Template(t, g, text) ==
  /\ CanStart(t)
  /\ ncmds' = ncmds + 1
  /\ IF ~HasDays(text)
     THEN /\ by_guild' = ForGuild(by_guild, g)
          /\ tasks' = [tasks EXCEPT ![t] =
               Respond(Begin("template", g, text),
                       <<"Template must include {days}.">>, TRUE)]
          /\ UNCHANGED file
     ELSE SaveAndUpdate(t, Begin("template", g, text),
                        [ForGuild(by_guild, g) EXCEPT ![g].template = text])
  /\ UNCHANGED <<msgs, chanName>>

\* /tank mode; channel is a text channel of the guild, or None.
Mode(t, g, kind, channel) ==
  /\ CanStart(t)
  /\ ncmds' = ncmds + 1
  /\ LET task == Begin("mode", g, <<kind, channel>>)
         setMode == [ForGuild(by_guild, g) EXCEPT ![g].mode = kind]
     IN IF kind = "channel_name" /\ channel = None
        THEN /\ by_guild' = setMode
             /\ tasks' = [tasks EXCEPT ![t] =
                  Respond(task,
                          <<"Choose a channel to rename in channel_name mode.">>,
                          TRUE)]
             /\ UNCHANGED file
        ELSE SaveAndUpdate(t, task,
               IF kind = "channel_name"
               THEN [setMode EXCEPT ![g].channel_name_channel_id = channel]
               ELSE setMode)
  /\ UNCHANGED <<msgs, chanName>>

\* ------------------------------------------- _update_display, continued
\* client.fetch_channel answered (lines 93, 104).
FetchChannelReturns(t, outcome) ==
  /\ tasks[t].pc = "fetch_channel"
  /\ outcome \in FetchChannelOutcomes
  /\ LET task == tasks[t]
         gs == by_guild[task.guild]
     IN tasks' = [tasks EXCEPT ![t] =
          IF outcome # "ok" THEN Raise(task, outcome)
          ELSE IF task.branch = "message" THEN CallFetchMessage(task, gs)
          ELSE CallChannelEdit(task, gs)]
  /\ UNCHANGED <<by_guild, file, msgs, chanName, ncmds>>

\* channel.fetch_message answered (lines 94-101).
FetchMessageReturns(t, outcome) ==
  /\ tasks[t].pc = "fetch_message"
  /\ outcome \in FetchMessageOutcomes(tasks[t].chan, tasks[t].mid)
  /\ LET task == tasks[t]
         g == task.guild
     IN CASE outcome = "ok" ->
               /\ tasks' = [tasks EXCEPT ![t] = CallMsgEdit(task, by_guild[g])]
               /\ UNCHANGED <<by_guild, file>>
          [] outcome = "NotFound" ->
               /\ by_guild' = [by_guild EXCEPT ![g] = ClearBinding(@)]
               /\ file' = SavedFile(by_guild')
               /\ tasks' = [tasks EXCEPT ![t] =
                    AfterUpdate([task EXCEPT !.saves = @ + 1], by_guild'[g])]
          [] OTHER ->
               /\ tasks' = [tasks EXCEPT ![t] = Raise(task, outcome)]
               /\ UNCHANGED <<by_guild, file>>
  /\ UNCHANGED <<msgs, chanName, ncmds>>

\* msg.edit answered (line 101).
MsgEditReturns(t, outcome) ==
  /\ tasks[t].pc = "msg_edit"
  /\ outcome \in MsgEditOutcomes(tasks[t].mid)
  /\ LET task == tasks[t]
     IN IF outcome = "ok"
        THEN /\ msgs' = [msgs EXCEPT ![task.mid].content = task.text]
             /\ tasks' = [tasks EXCEPT ![t] = AfterUpdate(task, by_guild[task.guild])]
        ELSE /\ tasks' = [tasks EXCEPT ![t] = Raise(task, outcome)]
             /\ UNCHANGED msgs
  /\ UNCHANGED <<by_guild, file, chanName, ncmds>>

\* channel.edit answered (lines 108-111).
ChannelEditReturns(t, outcome) ==
  /\ tasks[t].pc = "channel_edit"
  /\ outcome \in ChannelEditOutcomes
  /\ LET task == tasks[t]
     IN CASE outcome = "ok" ->
               /\ chanName' = [chanName EXCEPT ![task.chan] = task.text]
               /\ tasks' = [tasks EXCEPT ![t] = AfterUpdate(task, by_guild[task.guild])]
          [] outcome = "Forbidden" ->
               /\ tasks' = [tasks EXCEPT ![t] = AfterUpdate(task, by_guild[task.guild])]
               /\ UNCHANGED chanName
          [] OTHER ->
               /\ tasks' = [tasks EXCEPT ![t] = Raise(task, outcome)]
               /\ UNCHANGED chanName
  /\ UNCHANGED <<by_guild, file, msgs, ncmds>>

\* ---------------------------------------------------------- environment
\* Somebody deletes one of the bot's messages.
DeleteMessage(m) ==
  /\ msgs[m].state = "alive"
  /\ msgs[m].author = BotUser
  /\ msgs' = [msgs EXCEPT ![m].state = "deleted"]
  /\ UNCHANGED <<by_guild, file, chanName, tasks, ncmds>>


\* ----------------------------------------------------------- /tank post
FreeMsgIds == {m \in MsgIds : msgs[m].state = "none"}
PostsInFlight == {t \in Tasks : tasks[t].pc = "post_send"}

\* /tank post in channel c of the guild, up to await send_message(text).
Post(t, g, c) ==
  /\ CanStart(t)
  /\ ChanGuild(c) = g
  /\ Cardinality(FreeMsgIds) > Cardinality(PostsInFlight)
  /\ by_guild' = ForGuild(by_guild, g)
  /\ LET gs == by_guild'[g]
         task == [Begin("post", g, None) EXCEPT !.chan = c]
     IN Started(t, IF RenderOK(gs)
                   THEN [task EXCEPT !.pc = "post_send", !.text = RenderText(gs)]
                   ELSE Raise(task, "KeyError"))
  /\ UNCHANGED <<file, msgs, chanName>>

\* send_message answered: the platform created the response message.
PostSendReturns(t) ==
  /\ tasks[t].pc = "post_send"
  /\ LET task == tasks[t]
         m == CHOOSE x \in FreeMsgIds : \A y \in FreeMsgIds : x <= y
     IN /\ msgs' = [msgs EXCEPT ![m] =
                      [state |-> "alive", author |-> BotUser,
                       channel |-> task.chan, content |-> task.text]]
        /\ tasks' = [tasks EXCEPT ![t] =
             [task EXCEPT !.pc = "post_original", !.mid = m,
                          !.resp = [sent |-> TRUE, ephemeral |-> FALSE,
                                    content |-> task.text]]]
  /\ UNCHANGED <<by_guild, file, chanName, ncmds>>

\* What interaction.original_response() can answer for message m.
OriginalResponseOutcomes(m) ==
  IF msgs[m].state = "alive" THEN {"ok"} ELSE {"NotFound"}

\* original_response answered; lines 133-136.
PostOriginalReturns(t, outcome) ==
  /\ tasks[t].pc = "post_original"
  /\ outcome \in OriginalResponseOutcomes(tasks[t].mid)
  /\ LET task == tasks[t]
         g == task.guild
     IN IF outcome = "ok"
        THEN /\ by_guild' = [by_guild EXCEPT ![g] =
                               BoundTo(@, msgs[task.mid].channel, task.mid)]
             /\ file' = SavedFile(by_guild')
             /\ tasks' = [tasks EXCEPT ![t].pc = "done", ![t].saves = @ + 1]
        ELSE /\ tasks' = [tasks EXCEPT ![t] = Raise(task, outcome)]
             /\ UNCHANGED <<by_guild, file>>
  /\ UNCHANGED <<msgs, chanName, ncmds>>

\* ----------------------------------------------------------- /tank bind
\* A message link: scheme://{sub}{host}/{path}/{ids[1]}/{ids[2]}/...
Url(scheme, sub, host, path, ids) ==
  [scheme |-> scheme, sub |-> sub, host |-> host, path |-> path, ids |-> ids]

\* re.match(r"https://(?:canary\.|ptb\.)?discord(?:app)?\.com/channels/(\d+)/(\d+)/(\d+)", url)
UrlMatches(u) ==
  /\ u.scheme = "https"
  /\ u.sub \in {"", "canary.", "ptb."}
  /\ u.host \in {"discord.com", "discordapp.com"}
  /\ u.path = "channels"
  /\ Len(u.ids) >= 3

\* map(int, m.groups())
UrlGroups(u) == [guild_id |-> u.ids[1], channel_id |-> u.ids[2], message_id |-> u.ids[3]]

BindInputs ==
  {Url("https", "", "discord.com", "channels", <<g, c, m>>) :
     g \in Guilds, c \in Channels, m \in MsgIds}
  \cup {Url("https", "ptb.", "discordapp.com", "channels", <<1, 11, 2>>),
        Url("http", "", "discord.com", "channels", <<1, 11, 2>>),
        Url("https", "www.", "discord.com", "channels", <<1, 11, 2>>),
        Url("https", "", "discord.com", "channels", <<1, 11>>)}

\* Mutant: the author check is missing.
BindOwned_Any(m) == TRUE

\* line 192: msg.author.id != client.user.id
BindOwned(m) == msgs[m].author = BotUser

\* /tank bind, up to the first await (lines 175-188).
Bind(t, g, url) ==
  /\ CanStart(t)
  /\ by_guild' = ForGuild(by_guild, g)
  /\ LET task == Begin("bind", g, url)
     IN Started(t,
          IF ~UrlMatches(url)
          THEN Respond(task, <<"Invalid message URL.">>, TRUE)
          ELSE IF UrlGroups(url).guild_id # g
          THEN Respond(task, <<"That message is not in this server.">>, TRUE)
          ELSE [task EXCEPT !.chan = UrlGroups(url).channel_id,
                            !.mid = UrlGroups(url).message_id,
                            !.pc = IF GetChannel(g, UrlGroups(url).channel_id)
                                   THEN "bind_fetch_message"
                                   ELSE "bind_fetch_channel"])
  /\ UNCHANGED <<file, msgs, chanName>>

\* client.fetch_channel answered (line 186).
BindFetchChannelReturns(t, outcome) ==
  /\ tasks[t].pc = "bind_fetch_channel"
  /\ outcome \in FetchChannelOutcomes
  /\ tasks' = [tasks EXCEPT ![t] =
       IF outcome = "ok" THEN [@ EXCEPT !.pc = "bind_fetch_message"]
       ELSE Raise(@, outcome)]
  /\ UNCHANGED <<by_guild, file, msgs, chanName, ncmds>>

\* channel.fetch_message answered (lines 187-200).
BindFetchMessageReturns(t, outcome) ==
  /\ tasks[t].pc = "bind_fetch_message"
  /\ outcome \in FetchMessageOutcomes(tasks[t].chan, tasks[t].mid)
  /\ LET task == tasks[t]
         g == task.guild
     IN CASE outcome = "NotFound" ->
               /\ tasks' = [tasks EXCEPT ![t] =
                    Respond(task, <<"Could not fetch that message.">>, TRUE)]
               /\ UNCHANGED <<by_guild, file>>
          [] outcome = "ok" /\ ~BindOwned(task.mid) ->
               /\ tasks' = [tasks EXCEPT ![t] =
                    Respond(task, <<"I can only bind to **my own** messages. Use /tank post to create one.">>, TRUE)]
               /\ UNCHANGED <<by_guild, file>>
          [] outcome = "ok" /\ BindOwned(task.mid) ->
               SaveAndUpdate(t, task,
                 [by_guild EXCEPT ![g] = BoundTo(@, task.chan, task.mid)])
          [] OTHER ->
               /\ tasks' = [tasks EXCEPT ![t] = Raise(task, outcome)]
               /\ UNCHANGED <<by_guild, file>>
  /\ UNCHANGED <<msgs, chanName, ncmds>>

\* ------------------------------------------------------- specifications
Modes == {"message", "channel_name"}

\* The steps of the handler in slot t.
Handler(t) ==
  \/ \E g \in Guilds, c \in Channels : Post(t, g, c)
  \/ PostSendReturns(t)
  \/ \E o \in Outcomes : PostOriginalReturns(t, o)
  \/ \E g \in Guilds, d \in SetInputs : SetDays(t, g, d)
  \/ \E g \in Guilds : Increment(t, g)
  \/ \E g \in Guilds : Reset(t, g)
  \/ \E g \in Guilds : Show(t, g)
  \/ \E g \in Guilds, u \in BindInputs : Bind(t, g, u)
  \/ \E o \in Outcomes : BindFetchChannelReturns(t, o)
  \/ \E o \in Outcomes : BindFetchMessageReturns(t, o)
  \/ \E g \in Guilds, x \in TemplateInputs : Template(t, g, x)
  \/ \E g \in Guilds, k \in Modes :
        \E c \in {None} \cup {x \in Channels : ChanGuild(x) = g} : Mode(t, g, k, c)
  \/ \E o \in Outcomes : FetchChannelReturns(t, o)
  \/ \E o \in Outcomes : FetchMessageReturns(t, o)
  \/ \E o \in Outcomes : MsgEditReturns(t, o)
  \/ \E o \in Outcomes : ChannelEditReturns(t, o)

Environment == \E m \in MsgIds : DeleteMessage(m)

\* One command at a time: each handler runs to its end before the next
\* command is dispatched.
Next == Handler(1) \/ Environment

Spec == Init /\ [][Next]_vars

\* ---------------------------------------------- overlapping handlers
\* The state after "/tank post" in channel 11 of guild 1 and nothing else:
\* the record bound to message 2, saved, the message showing the rendering.
InitBound ==
  /\ by_guild = [g \in {1} |-> BoundTo(DefaultGuildState(1), 11, 2)]
  /\ file = SavedFile(by_guild)
  /\ msgs = [m \in MsgIds |->
               IF m = 1
               THEN [state |-> "alive", author |-> OtherUser, channel |-> 11,
                     content |-> <<"h", "i">>]
               ELSE IF m = 2
               THEN [state |-> "alive", author |-> BotUser, channel |-> 11,
                     content |-> RenderText(DefaultGuildState(1))]
               ELSE NoMsg]
  /\ chanName = [c \in Channels |-> <<"c">>]
  /\ tasks = [t \in Tasks |-> IdleTask]
  /\ ncmds = 0

\* The steps of a handler of guild 1 in slot t, for the commands that touch
\* the value and the binding.
HandlerConc(t) ==
  \/ tasks[t].pc = "idle" /\ Post(t, 1, 11)
  \/ PostSendReturns(t)
  \/ \E o \in Outcomes : PostOriginalReturns(t, o)
  \/ tasks[t].pc = "idle" /\ SetDays(t, 1, 5000)
  \/ tasks[t].pc = "idle" /\ Increment(t, 1)
  \/ tasks[t].pc = "idle" /\ Reset(t, 1)
  \/ /\ tasks[t].pc = "idle"
     /\ Bind(t, 1, Url("https", "", "discord.com", "channels", <<1, 11, 2>>))
  \/ \E o \in Outcomes : BindFetchMessageReturns(t, o)
  \/ \E o \in Outcomes : FetchMessageReturns(t, o)
  \/ \E o \in Outcomes : MsgEditReturns(t, o)

\* Commands arrive while others wait for the platform: every slot runs one
\* handler (it starts only in an idle slot), and any handler that waits may
\* be resumed next.
NextConc ==
  \/ \E t \in Tasks : HandlerConc(t)
  \/ Environment

\* The overlapping handlers start on a fresh registry or on a bound record.
InitConc == Init \/ InitBound

SpecConc == InitConc /\ [][NextConc]_vars

\* =====================================================================
\* Properties
\* =====================================================================
Last(q) == q[Len(q)]

\* The persisted record of guild g (state.json holds one for g).
Persisted(g) == file.exists /\ GidStr(g) \in DOMAIN file.raw
PersistedRec(g) == file.raw[GidStr(g)]

\* Handler t ran its validation and changed the record.
Mutated(t) == tasks[t].pc # "idle" /\ tasks[t].saves >= 1

\* Handler t is waiting for the answer of a platform call of _update_display.
SyncPcs == {"fetch_channel", "fetch_message", "msg_edit", "channel_edit"}

\* The value a set / inc / reset command is to leave in the record.
NewValue(t) ==
  CASE tasks[t].cmd = "set" -> tasks[t].arg
    [] tasks[t].cmd = "inc" -> tasks[t].pre.days + 1
    [] tasks[t].cmd = "reset" -> 0

\* _update_display returned through its NotFound handler.
Recovered(t) ==
  /\ tasks[t].pc = "done"
  /\ tasks[t].exc = "none"
  /\ tasks[t].calls # <<>>
  /\ Last(tasks[t].calls) = "fetch_message"

\* ------------------------------------------------------------------ C1
\* C1: for set, inc and reset the new value is in state.json from the moment
\* the first display-sync call is pending, and stays there whatever the
\* sync's outcome: while the handler waits for a sync call and after it has
\* ended (normally or by an exception), the persisted days of the guild is
\* the value the command set.
C1_PersistedBeforeSync ==
  \A t \in Tasks :
    (tasks[t].cmd \in {"set", "inc", "reset"} /\ Mutated(t))
      => /\ Persisted(tasks[t].guild)
         /\ PersistedRec(tasks[t].guild).days = NewValue(t)

\* A set whose message edit was refused, with the value on disk.
C1_Witness ==
  /\ tasks[1].cmd = "set"
  /\ tasks[1].pc = "done"
  /\ tasks[1].exc = "Forbidden"
  /\ tasks[1].arg = 5000
  /\ Persisted(tasks[1].guild)
  /\ PersistedRec(tasks[1].guild).days = 5000

\* ------------------------------------------------------------------ C2
\* C2 as stated: after the NotFound recovery the record and the persisted
\* record have both channel_id and message_id None.
C2_BothCleared ==
  \A t \in Tasks :
    Recovered(t)
      => /\ by_guild[tasks[t].guild].channel_id = None
         /\ by_guild[tasks[t].guild].message_id = None
         /\ PersistedRec(tasks[t].guild).channel_id = None
         /\ PersistedRec(tasks[t].guild).message_id = None

\* The commands whose handler is "change one field, save, sync" and that
\* leave the binding and the mode alone.
PlainStart(t) ==
  /\ tasks'[t].pre = by_guild[tasks'[t].guild]
  /\ \/ tasks'[t].cmd \in {"inc", "reset"}
     \/ tasks'[t].cmd = "set" /\ RangeOK(tasks'[t].arg)
     \/ tasks'[t].cmd = "template" /\ tasks'[t].saves = 1

RecoveredState(t) ==
  Recovered(t) =>
    /\ by_guild[tasks[t].guild].message_id = None
    /\ by_guild[tasks[t].guild].channel_id = tasks[t].chan
    /\ Persisted(tasks[t].guild)
    /\ PersistedRec(tasks[t].guild) = ToDict(by_guild[tasks[t].guild])

\* C2, amended (one step): after the NotFound recovery message_id is None in the record
\* and in state.json (channel_id is kept), the file holds the record, and
\* the sync of the next command of that guild makes no platform call, ends
\* at once with the success response and changes neither the binding, the
\* mode, the messages nor the channel names.
C2_RecoveryStep ==
  \A t \in Tasks :
    /\ RecoveredState(t)'
    /\ (/\ Recovered(t)
        /\ ncmds' = ncmds + 1
        /\ tasks'[t].guild = tasks[t].guild
        /\ PlainStart(t))
         => /\ tasks'[t].pc = "done"
            /\ tasks'[t].calls = <<>>
            /\ tasks'[t].resp.sent
            /\ tasks'[t].saves = 1
            /\ by_guild'[tasks[t].guild].message_id = None
            /\ by_guild'[tasks[t].guild].channel_id = by_guild[tasks[t].guild].channel_id
            /\ by_guild'[tasks[t].guild].mode = "message"
            /\ msgs' = msgs
            /\ chanName' = chanName

\* C2, amended, as a property of every step: what holds once the recovery
\* has run, and what the next command's sync does.
C2_Recovery == [][C2_RecoveryStep]_vars

\* A set found its bound message deleted, and another command can follow.
C2_Witness ==
  /\ Recovered(1)
  /\ tasks[1].cmd = "set"
  /\ tasks[1].pre.message_id # None
  /\ by_guild[tasks[1].guild].message_id = None
  /\ by_guild[tasks[1].guild].channel_id # None
  /\ ncmds < MaxCmds

\* ------------------------------------------------------------------ C3
ChooseChannelText == <<"Choose a channel to rename in channel_name mode.">>

\* C3: mode(channel_name) without a channel answers with the validation
\* message and leaves the mode of the record, in memory and in state.json,
\* as it was before the command.
C3_ModeRejectedKeepsMode ==
  \A t \in Tasks :
    (/\ tasks[t].cmd = "mode"
     /\ tasks[t].pc = "done"
     /\ tasks[t].arg = <<"channel_name", None>>)
      => /\ tasks[t].resp.sent
         /\ tasks[t].resp.content = ChooseChannelText
         /\ tasks[t].saves = 0
         /\ by_guild[tasks[t].guild].mode = tasks[t].pre.mode

\* ------------------------------------------------------------------ C4
\* C4: a command that passed validation and changed the record ends with
\* its success response, whatever the display sync met.
C4_SyncFailureKeepsResponse ==
  \A t \in Tasks :
    (/\ tasks[t].cmd \in {"set", "inc", "reset", "template", "mode", "bind"}
     /\ tasks[t].pc = "done"
     /\ Mutated(t))
      => /\ tasks[t].resp.sent
         /\ tasks[t].resp.content = SuccessText(tasks[t].cmd, by_guild[tasks[t].guild])

\* ------------------------------------------------------------------ C5
\* The recognized shape of a message link: https, discord.com or
\* discordapp.com with an optional canary. or ptb. subdomain,
\* /channels/ and three numeric segments.
RecognizedLink(u) ==
  /\ u.scheme = "https"
  /\ u.sub \in {"", "canary.", "ptb."}
  /\ u.host \in {"discord.com", "discordapp.com"}
  /\ u.path = "channels"
  /\ Len(u.ids) >= 3

\* Why the bind of handler t must fail.
BindMustFail(t) ==
  \/ ~RecognizedLink(tasks[t].arg)
  \/ tasks[t].arg.ids[1] # tasks[t].guild
  \/ tasks[t].resp.content = <<"Could not fetch that message.">>
  \/ /\ tasks[t].arg.ids[3] \in MsgIds
     /\ msgs[tasks[t].arg.ids[3]].state # "none"
     /\ msgs[tasks[t].arg.ids[3]].author # BotUser

\* C5: a bind whose link is not of the recognized shape, names another
\* guild, names a message that is not found or names a message of another
\* author leaves the record as it was, saves nothing and starts no sync.
C5_FailedBindChangesNothing ==
  \A t \in Tasks :
    (tasks[t].cmd = "bind" /\ tasks[t].pc = "done" /\ BindMustFail(t))
      => /\ by_guild[tasks[t].guild] = tasks[t].pre
         /\ tasks[t].saves = 0
         /\ tasks[t].calls = <<>>

\* A record bound by post, then a bind to a member's message is refused.
C5_Witness ==
  /\ tasks[1].cmd = "bind"
  /\ tasks[1].guild = 1
  /\ tasks[1].pc = "done"
  /\ tasks[1].resp.sent
  /\ tasks[1].arg.ids = <<1, 11, 1>>
  /\ tasks[1].pre.message_id = 2
  /\ by_guild[1].message_id = 2


\* ------------------------------------------------------------------ C6
\* C6 as stated: channel_id and message_id are set only in message mode,
\* channel_name_channel_id only in channel_name mode.
C6_FieldsOnlyInTheirMode ==
  \A g \in DOMAIN by_guild :
    /\ (Truthy(by_guild[g].channel_id) \/ Truthy(by_guild[g].message_id))
         => by_guild[g].mode = "message"
    /\ Truthy(by_guild[g].channel_name_channel_id)
         => by_guild[g].mode = "channel_name"

\* C6, amended: the fields of the other mode are kept, not cleared, but the
\* sync acts only on the target of the current mode: it fetches and edits
\* the message (channel_id, message_id) only in message mode and renames
\* channel_name_channel_id only in channel_name mode; and message_id is set
\* only together with channel_id.
C6_ActiveTargetByMode ==
  /\ \A g \in DOMAIN by_guild :
       Truthy(by_guild[g].message_id) => Truthy(by_guild[g].channel_id)
  /\ \A t \in Tasks :
       tasks[t].pc \in SyncPcs =>
         LET gs == by_guild[tasks[t].guild]
         IN /\ tasks[t].branch = gs.mode
            /\ gs.mode = "message" =>
                 /\ tasks[t].pc # "channel_edit"
                 /\ tasks[t].chan = gs.channel_id
                 /\ tasks[t].pc # "fetch_channel" => tasks[t].mid = gs.message_id
            /\ gs.mode = "channel_name" =>
                 /\ tasks[t].pc \in {"fetch_channel", "channel_edit"}
                 /\ tasks[t].chan = gs.channel_name_channel_id

\* A rename is pending while the record still names a bound message.
C6_Witness ==
  /\ tasks[1].pc = "channel_edit"
  /\ by_guild[tasks[1].guild].mode = "channel_name"
  /\ Truthy(by_guild[tasks[1].guild].message_id)

\* ------------------------------------------------------------------ C7
\* q occurs in s as a run of consecutive characters.
IsInfix(q, s) ==
  \E i \in 0..(Len(s) - Len(q)) : \A j \in 1..Len(q) : s[i + j] = q[j]

\* C7: set(d) leaves days = d, inc leaves the previous days plus 1 with no
\* upper clamp, reset leaves 0; show changes nothing, saves nothing, and its
\* public response is the template with the decimal digits of the current
\* days in place of each {days}.
C7_ValueCommands ==
  \A t \in Tasks :
    LET task == tasks[t]
        gs == by_guild[task.guild]
    IN /\ (task.cmd = "set" /\ Mutated(t)) => gs.days = task.arg
       /\ (task.cmd = "inc" /\ Mutated(t)) => gs.days = task.pre.days + 1
       /\ (task.cmd = "reset" /\ Mutated(t)) => gs.days = 0
       /\ (task.cmd = "show" /\ task.pc = "done") =>
            /\ gs = task.pre
            /\ task.saves = 0
            /\ task.calls = <<>>
            /\ task.resp.sent <=> FormatOK(gs.template)
            /\ task.resp.sent =>
                 /\ ~task.resp.ephemeral
                 /\ task.resp.content = Format(gs.template, gs.days)
                 /\ IsInfix(Str(gs.days), task.resp.content)

\* set(10000), inc, show: the response starts with 10001.
C7_Witness ==
  /\ tasks[1].cmd = "show"
  /\ tasks[1].pc = "done"
  /\ tasks[1].resp.sent
  /\ by_guild[tasks[1].guild].days = 10001
  /\ SubSeq(tasks[1].resp.content, 1, 7) = <<"1", "0", "0", "0", "1", " ", "d">>

\* ------------------------------------------------------------------ C8
DaysCount(text) == Cardinality({i \in 1..Len(text) : text[i] = DaysField})

C9_SyncStep ==
  \A t \in Tasks :
    tasks[t].pc \in SyncPcs =>
      /\ DOMAIN by_guild' = DOMAIN by_guild
      /\ \A g \in DOMAIN by_guild :
           /\ by_guild'[g].guild_id = by_guild[g].guild_id
           /\ by_guild'[g].days = by_guild[g].days
           /\ by_guild'[g].template = by_guild[g].template
           /\ by_guild'[g].mode = by_guild[g].mode
           /\ by_guild'[g].channel_name_channel_id = by_guild[g].channel_name_channel_id
           /\ by_guild'[g] # by_guild[g] =>
                /\ g = tasks[t].guild
                /\ tasks[t].pc = "fetch_message"
                /\ "ok" \notin FetchMessageOutcomes(tasks[t].chan, tasks[t].mid)

\* C9 as a property of every step: the sync changes no field of a record
\* but the binding, and that only on the NotFound path.
C9_SyncFrame == [][C9_SyncStep]_vars

\* The sync of a template command cleared the binding of a deleted message
\* and left days, template and mode as the command had set them.
C9_Witness ==
  /\ Recovered(1)
  /\ tasks[1].cmd = "template"
  /\ by_guild[tasks[1].guild].template = tasks[1].arg
  /\ by_guild[tasks[1].guild].days = 5000
  /\ by_guild[tasks[1].guild].message_id = None
  /\ tasks[1].pre.message_id # None

\* ----------------------------------------------------------------- C10
\* No display target is bound for the mode of record r.
Unbound(r) ==
  \/ r.mode = "message" /\ (r.channel_id = None \/ r.message_id = None)
  \/ r.mode = "channel_name" /\ r.channel_name_channel_id = None

\* Handler t runs set, inc, reset, template or mode(message), passed its
\* validation, and its sync finds no target bound.
UnboundCommand(t) ==
  /\ tasks[t].pc # "idle"
  /\ \/ /\ \/ tasks[t].cmd \in {"inc", "reset"}
           \/ tasks[t].cmd = "set" /\ RangeOK(tasks[t].arg)
           \/ tasks[t].cmd = "template" /\ DaysCount(tasks[t].arg) >= 1
        /\ Unbound(tasks[t].pre)
     \/ /\ tasks[t].cmd = "mode"
        /\ tasks[t].arg[1] = "message"
        /\ (tasks[t].pre.channel_id = None \/ tasks[t].pre.message_id = None)

\* C10: with no target bound the sync makes no platform call, changes no
\* field of the record and does not write state.json (the handler's own
\* save is the only one), and the handler ends with its success response.
C10_UnboundSyncIsNoOp ==
  \A t \in Tasks :
    UnboundCommand(t) =>
      LET task == tasks[t]
          gs == by_guild[task.guild]
      IN /\ task.pc = "done"
         /\ task.exc = "none"
         /\ task.calls = <<>>
         /\ task.saves = 1
         /\ task.resp.sent
         /\ task.resp.content = SuccessText(task.cmd, gs)
         /\ gs.channel_id = task.pre.channel_id
         /\ gs.message_id = task.pre.message_id
         /\ gs.channel_name_channel_id = task.pre.channel_name_channel_id
         /\ task.cmd # "mode" => gs.mode = task.pre.mode
         /\ Persisted(task.guild)
         /\ PersistedRec(task.guild) = ToDict(gs)

\* inc on a record whose binding was cleared (channel_id left, message_id
\* None) ends with its response and without a platform call.
C10_Witness ==
  /\ tasks[1].cmd = "inc"
  /\ tasks[1].pc = "done"
  /\ tasks[1].pre.channel_id # None
  /\ tasks[1].pre.message_id = None
  /\ tasks[1].pre.mode = "message"
  /\ tasks[1].resp.sent
  /\ tasks[1].calls = <<>>

\* ----------------------------------------------------------------- C11
\* C11: whenever a command handler has finished with a response (success or
\* error), state.json holds the in-memory record of the handler's guild,
\* provided state.json holds a record of that guild at all.
C11_FinishedHandlerIsDurable ==
  \A t \in Tasks :
    (tasks[t].pc = "done" /\ tasks[t].resp.sent /\ Persisted(tasks[t].guild))
      => PersistedRec(tasks[t].guild) = ToDict(by_guild[tasks[t].guild])

\* ----------------------------------------------------------------- C12
\* The display target of guild g shows the rendering of g's record: the
\* bound message has it as content, or the rename channel has its safe form
\* as name; with no target bound there is nothing to show.
ShownIn(gs, messages, names) ==
  IF Unbound(gs) THEN TRUE
  ELSE IF gs.mode = "message"
  THEN messages[gs.message_id].content = RenderText(gs)
  ELSE names[gs.channel_name_channel_id] = SafeName(RenderText(gs))

Shown(g) == ShownIn(by_guild[g], msgs, chanName)

\* C12 (one step): a sync step that changes a display leaves it showing the
\* rendering of the record, and one that changes the record (the NotFound
\* recovery) leaves it unbound; a sync step taken when the display already
\* shows the rendering changes no message and no channel name, and changes
\* the record only if the bound message is gone; and the sync of an unbound
\* record makes no call.  So a second sync of the same record under the
\* same platform outcome changes neither the display nor the record.
C12_SyncStepIdempotent ==
  \A t \in Tasks :
    LET g == tasks[t].guild
    IN /\ (tasks[t].pc \in SyncPcs /\ tasks'[t] # tasks[t]) =>
            /\ (msgs' # msgs \/ chanName' # chanName)
                 => ShownIn(by_guild'[g], msgs', chanName')
            /\ by_guild' # by_guild => Unbound(by_guild'[g])
            /\ Shown(g) =>
                 /\ msgs' = msgs
                 /\ chanName' = chanName
                 /\ by_guild' # by_guild =>
                      "ok" \notin FetchMessageOutcomes(tasks[t].chan, tasks[t].mid)
       /\ (ncmds' = ncmds + 1 /\ tasks'[t].pc \in SyncPcs)
            => ~Unbound(by_guild'[tasks'[t].guild])

\* C12: sync is idempotent, as a property of every step.
C12_SyncIdempotent == [][C12_SyncStepIdempotent]_vars

\* A second mode(channel_name, 11) found the record as the first had left
\* it, renamed the channel again, and the name is that of the rendering.
C12_Witness ==
  /\ tasks[1].cmd = "mode"
  /\ tasks[1].arg = <<"channel_name", 11>>
  /\ tasks[1].pc = "done"
  /\ tasks[1].exc = "none"
  /\ tasks[1].calls = <<"channel.edit">>
  /\ tasks[1].guild = 1
  /\ tasks[1].pre = by_guild[1]
  /\ by_guild[1].days = 5000
  /\ chanName[11] = SafeName(RenderText(by_guild[1]))

\* ----------------------------------------------------------------- C13
\* C13: saving the registry and loading what was saved yields the registry:
\* the same guild ids and, for each, equal days, message_id, channel_id,
\* mode, template and channel_name_channel_id.
C13_SaveLoadRoundTrip ==
  LET loaded == LoadFile(SavedFile(by_guild))
  IN /\ DOMAIN loaded = DOMAIN by_guild
     /\ \A g \in DOMAIN by_guild :
          /\ loaded[g].guild_id = g
          /\ loaded[g].days = by_guild[g].days
          /\ loaded[g].message_id = by_guild[g].message_id
          /\ loaded[g].channel_id = by_guild[g].channel_id
          /\ loaded[g].mode = by_guild[g].mode
          /\ loaded[g].template = by_guild[g].template
          /\ loaded[g].channel_name_channel_id = by_guild[g].channel_name_channel_id

\* state.json holds two guilds, one bound to a message and one renaming a
\* channel, and loading it gives the registry in memory.
C13_Witness ==
  /\ DOMAIN by_guild = Guilds
  /\ file.exists
  /\ by_guild[1].channel_name_channel_id = 11
  /\ by_guild[1].mode = "channel_name"
  /\ by_guild[2].message_id # None
  /\ LoadFile(file) = by_guild

\* ----------------------------------------------------------------- C14
\* C14: days of every record is >= 0 in every reachable state, in memory and
\* in state.json: the loaded state has none below 0, set stores only a value
\* in 0..10000 and refuses any other without touching the record, inc adds
\* one and reset stores 0.
C14_DaysNeverNegative ==
  /\ \A g \in DOMAIN by_guild :
       /\ by_guild[g].days >= 0
       /\ Persisted(g) => PersistedRec(g).days >= 0
  /\ \A t \in Tasks :
       tasks[t].cmd = "set" =>
         IF tasks[t].arg \in 0..10000
         THEN by_guild[tasks[t].guild].days = tasks[t].arg
         ELSE /\ tasks[t].pc = "done"
              /\ tasks[t].saves = 0
              /\ ~tasks[t].resp.sent
              /\ tasks[t].guild \in DOMAIN by_guild
                   => by_guild[tasks[t].guild] = tasks[t].pre

\* set(-1) was refused on a record whose days is 10001.
C14_Witness ==
  /\ tasks[1].cmd = "set"
  /\ tasks[1].arg = -1
  /\ tasks[1].pc = "done"
  /\ tasks[1].guild \in DOMAIN by_guild
  /\ by_guild[tasks[1].guild].days = 10001
  /\ PersistedRec(tasks[1].guild).days = 10001

\* ----------------------------------------------------------------- C15
\* The characters of [a-z0-9-].
AllowedNameChars ==
  {"a", "b", "c", "d", "e", "f", "g", "h", "i", "j", "k", "l", "m", "n",
   "o", "p", "q", "r", "s", "t", "u", "v", "w", "x", "y", "z",
   "0", "1", "2", "3", "4", "5", "6", "7", "8", "9", "-"}

\* name is text lower-cased, every character outside [a-z0-9-] replaced by
\* "-", cut to 95 characters.
IsSafeNameOf(name, text) ==
  /\ Len(name) <= 95
  /\ Len(name) = (IF Len(text) > 95 THEN 95 ELSE Len(text))
  /\ \A i \in 1..Len(name) :
       /\ name[i] \in AllowedNameChars
       /\ text[i] \in AllowedNameChars => name[i] = text[i]
       /\ text[i] = "S" => name[i] = "s"
       /\ text[i] = "P" => name[i] = "p"
       /\ text[i] = " " => name[i] = "-"

\* C15: the name passed to channel.edit in channel_name mode is at most 95
\* characters of [a-z0-9-]: the rendered text lower-cased, every other
\* character replaced by "-", cut to 95; and a rename that succeeded left
\* the channel with that name.
C15_ChannelNameIsSafe ==
  /\ \A t \in Tasks :
       (tasks[t].calls # <<>> /\ Last(tasks[t].calls) = "channel.edit")
         => IsSafeNameOf(tasks[t].text, RenderText(by_guild[tasks[t].guild]))
  /\ \A c \in Channels :
       /\ Len(chanName[c]) <= 95
       /\ \A i \in 1..Len(chanName[c]) : chanName[c][i] \in AllowedNameChars

\* A rename is pending for a rendering of more than 95 characters: the name
\* is its first 95, lower-cased and dashed.
C15_Witness ==
  /\ tasks[1].pc = "channel_edit"
  /\ Len(RenderText(by_guild[tasks[1].guild])) > 95
  /\ Len(tasks[1].text) = 95
  /\ by_guild[tasks[1].guild].days = 5000
  /\ SubSeq(tasks[1].text, 1, 18) =
       <<"5", "0", "0", "0", "-", "d", "a", "y", "s", "-", "s", "i", "n", "c",
         "e", "-", "s", "e">>

\* ----------------------------------------------------------------- C16
BoundText == <<"Bound to that message.">>

\* The record of handler t's guild, in memory and in state.json, is in
\* message mode and bound to message m of channel c.
BoundExactly(t, c, m) ==
  LET gs == by_guild[tasks[t].guild]
  IN /\ gs.mode = "message"
     /\ gs.channel_id = c
     /\ gs.message_id = m
     /\ Persisted(tasks[t].guild)
     /\ PersistedRec(tasks[t].guild) = ToDict(gs)

\* C16 as stated: once post or bind has succeeded, the record is in message
\* mode, its (channel_id, message_id) is the message just posted or
\* validated, and that record is in state.json.
C16_BoundToNewMessage ==
  \A t \in Tasks :
    /\ (tasks[t].cmd = "post" /\ tasks[t].pc = "done" /\ tasks[t].exc = "none")
         => BoundExactly(t, tasks[t].chan, tasks[t].mid)
    /\ (tasks[t].cmd = "bind" /\ tasks[t].pc = "done"
          /\ tasks[t].resp.content = BoundText)
         => BoundExactly(t, tasks[t].arg.ids[2], tasks[t].arg.ids[3])

\* C16, amended: post leaves the record bound to the message it posted; bind
\* binds the record to the validated message of the bot and saves it, and
\* the record stays so to the end of the handler unless bind's own sync finds
\* that message deleted, in which case message_id is cleared (channel_id and
\* the mode stay) and that record is saved.
C16_BoundUnlessDeleted ==
  \A t \in Tasks :
    /\ (tasks[t].cmd = "post" /\ tasks[t].pc = "done" /\ tasks[t].exc = "none")
         => /\ BoundExactly(t, tasks[t].chan, tasks[t].mid)
            /\ msgs[tasks[t].mid].author = BotUser
            /\ msgs[tasks[t].mid].channel = tasks[t].chan
    /\ (tasks[t].cmd = "bind" /\ Mutated(t))
         => /\ msgs[tasks[t].arg.ids[3]].author = BotUser
            /\ msgs[tasks[t].arg.ids[3]].channel = tasks[t].arg.ids[2]
            /\ IF Recovered(t)
               THEN /\ BoundExactly(t, tasks[t].arg.ids[2], None)
                    /\ msgs[tasks[t].arg.ids[3]].state = "deleted"
               ELSE BoundExactly(t, tasks[t].arg.ids[2], tasks[t].arg.ids[3])
    /\ (tasks[t].cmd = "bind" /\ tasks[t].pc = "done"
          /\ tasks[t].resp.content = BoundText)
         => Mutated(t)

\* A record bound to message 3 was bound again to message 2.
C16_Witness ==
  /\ tasks[1].cmd = "bind"
  /\ tasks[1].pc = "done"
  /\ tasks[1].resp.content = BoundText
  /\ tasks[1].pre.message_id = 3
  /\ by_guild[tasks[1].guild].message_id = 2
  /\ PersistedRec(tasks[1].guild).message_id = 2

\* ----------------------------------------------------------------- C17
\* Every handler has finished and no platform call of any of them failed.
AllFinishedCleanly ==
  \A t \in Tasks :
    /\ tasks[t].pc \in {"idle", "done"}
    /\ tasks[t].exc = "none"
    /\ ~Recovered(t)
    /\ tasks[t].resp.content # <<"Could not fetch that message.">>

\* C17: under any interleaving of handlers of guild 1, once all have
\* finished with every platform call succeeding and the bound message
\* exists, the message bound in message mode shows the rendering of the
\* record's current days and template.
C17_FinalDisplayIsCurrent ==
  (/\ AllFinishedCleanly
   /\ 1 \in DOMAIN by_guild
   /\ by_guild[1].mode = "message"
   /\ Truthy(by_guild[1].channel_id)
   /\ Truthy(by_guild[1].message_id)
   /\ msgs[by_guild[1].message_id].state = "alive")
    => msgs[by_guild[1].message_id].content = RenderText(by_guild[1])

\* ----------------------------------------------------------------- C18
\* C18 (one step): when fetch_message answers NotFound for the message a
\* sync asked for while the record is by now bound to another message, the
\* recovery leaves that other binding in place.
C18_RecoveryStep ==
  \A t \in Tasks :
    (/\ tasks[t].pc = "fetch_message"
     /\ Recovered(t)'
     /\ by_guild[tasks[t].guild].message_id # tasks[t].mid)
      => by_guild'[tasks[t].guild].message_id = by_guild[tasks[t].guild].message_id

\* C18 as a property of every step.
C18_RecoveryKeepsNewBinding == [][C18_RecoveryStep]_vars

\* ----------------------------------------------------------------- C19
\* The inc handlers started so far.
IncTasks == {t \in Tasks : tasks[t].cmd = "inc"}

\* C19: with k inc handlers of guild 1 started on a value of 0, at any
\* interleaving with each other and with post and bind (no set, no reset),
\* days is k in memory and in state.json, at every moment and so when all
\* have finished.
C19_NoLostIncrement ==
  (/\ IncTasks # {}
   /\ \A t \in Tasks : tasks[t].cmd \notin {"set", "reset"})
    => /\ by_guild[1].days = Cardinality(IncTasks)
       /\ Persisted(1)
       /\ PersistedRec(1).days = Cardinality(IncTasks)

\* Two inc handlers overlapped: the first started on 0 and, resumed after
\* the second had started, wrote the rendering of 2; both have finished.
C19_Witness ==
  /\ \A t \in Tasks : tasks[t].cmd = "inc" /\ tasks[t].pc = "done"
  /\ tasks[1].pre.days = 0
  /\ tasks[1].calls = <<"fetch_message", "msg.edit">>
  /\ tasks[1].text = RenderText(by_guild[1])
  /\ by_guild[1].days = NumTasks
  /\ PersistedRec(1).days = NumTasks

\* ----------------------------------------------------------------- C20
\* What a restart would find for guild g in state.json: the saved record,
\* or the default one that the first access creates.
PersistedView(g) ==
  IF Persisted(g) THEN FromDict(g, PersistedRec(g)) ELSE DefaultGuildState(g)

\* Handler t waits for a call on the message that the record of guild b is
\* bound to, or on the channel that b renames.
CallsTargetOf(t, b) ==
  /\ b \in DOMAIN by_guild
  /\ \/ /\ tasks[t].pc \in {"bind_fetch_message", "fetch_message", "msg_edit"}
        /\ Truthy(by_guild[b].message_id)
        /\ tasks[t].chan = by_guild[b].channel_id
        /\ tasks[t].mid = by_guild[b].message_id
     \/ /\ tasks[t].pc = "channel_edit"
        /\ Truthy(by_guild[b].channel_name_channel_id)
        /\ tasks[t].chan = by_guild[b].channel_name_channel_id

\* C20 (one step): a step of a handler of guild a leaves the record of
\* every other guild b as it was, in memory and in state.json, registers or
\* drops no record of b, and starts no call on a display target of b; the
\* record of a is created as the default one by the first command of a and
\* is never replaced by another record.
C20_Step ==
  \A t \in Tasks :
    tasks'[t] # tasks[t] =>
      LET a == tasks'[t].guild
      IN /\ \A b \in Guilds \ {a} :
              /\ (b \in DOMAIN by_guild') = (b \in DOMAIN by_guild)
              /\ b \in DOMAIN by_guild => by_guild'[b] = by_guild[b]
              /\ PersistedView(b)' = PersistedView(b)
              /\ ~CallsTargetOf(t, b)'
         /\ (a \in Guilds /\ a \notin DOMAIN by_guild /\ a \in DOMAIN by_guild')
              => tasks'[t].pre = DefaultGuildState(a)
         /\ \A g \in DOMAIN by_guild :
              g \in DOMAIN by_guild' /\ by_guild'[g].guild_id = g

\* C20 as a property of every step.
C20_OtherGuildsUntouched == [][C20_Step]_vars

====
